---------------------------- MODULE Spec2Model ----------------------------
(***************************************************************************)
(* A model of src/src/debut/package.py: DebArchive.from_filename,          *)
(* DebArchive.to_tuple, match_relationships, find_latest_version and       *)
(* find_latest_versions.                                                   *)
(*                                                                         *)
(* Python strings are sequences of one-character strings, ordered by code  *)
(* point.  A Python value is a record [t, s, n]: t is its type, s its      *)
(* characters (a str), n its rank (a Version).  The interpreter is         *)
(* Python 3 (line 42 takes the first branch): ordering None against a str, *)
(* or a str against a Version, raises TypeError.                           *)
(***************************************************************************)
EXTENDS Naturals, Sequences, FiniteSets

VARIABLES
    relationship_sets,  \* match_relationships: what each set's matches() reports
    position,           \* match_relationships: index of the next set of the for loop
    archive_matches,    \* match_relationships: the local of line 128
    consulted,          \* match_relationships: the sets whose matches() was called, in call order
    returned,           \* match_relationships: the value returned at line 140
    pc,                 \* where the running call is
    filename,           \* from_filename: its argument
    parsed,             \* from_filename: its outcome
    packages,           \* find_latest_version(s): its argument
    outcome             \* find_latest_version(s): its outcome

vars == <<relationship_sets, position, archive_matches, consulted, returned, pc,
          filename, parsed, packages, outcome>>

----------------------------------------------------------------------------
(* Bounds *)

MaxSets == 4
MaxStem == 5
MaxPackages == 3

----------------------------------------------------------------------------
(* Python values *)

Str(chars) == [t |-> "str", s |-> chars, n |-> 0]

Version(rank) == [t |-> "Version", s |-> <<>>, n |-> rank]

None == [t |-> "NoneType", s |-> <<>>, n |-> 0]

\* The code point of a character.
Ord(c) ==
    CASE c = "." -> 46 [] c = "/" -> 47
      [] c = "0" -> 48 [] c = "1" -> 49 [] c = "2" -> 50 [] c = "3" -> 51
      [] c = "_" -> 95
      [] c = "a" -> 97 [] c = "b" -> 98 [] c = "d" -> 100 [] c = "e" -> 101
      [] c = "f" -> 102 [] c = "g" -> 103 [] c = "i" -> 105 [] c = "l" -> 108
      [] c = "m" -> 109 [] c = "n" -> 110 [] c = "o" -> 111 [] c = "p" -> 112
      [] c = "q" -> 113 [] c = "r" -> 114 [] c = "u" -> 117
      [] OTHER -> 32

\* str < str
StrLess(a, b) ==
    LET common == IF Len(a) < Len(b) THEN Len(a) ELSE Len(b)
        differ == {i \in 1..common : a[i] # b[i]}
    IN  IF differ = {}
        THEN Len(a) < Len(b)
        ELSE LET k == CHOOSE i \in differ : \A j \in differ : i <= j
             IN  Ord(a[k]) < Ord(b[k])

\* str.rfind(c), counted from 1: 0 when c does not occur
RFind(p, c) ==
    LET at == {i \in 1..Len(p) : p[i] = c}
    IN  IF at = {} THEN 0 ELSE CHOOSE i \in at : \A j \in at : j <= i

\* str.find(c), counted from 1: 0 when c does not occur
Find(p, c) ==
    LET at == {i \in 1..Len(p) : p[i] = c}
    IN  IF at = {} THEN 0 ELSE CHOOSE i \in at : \A j \in at : i <= j

\* os.path.basename
basename(p) == SubSeq(p, RFind(p, "/") + 1, Len(p))

\* os.path.splitext: <<root, extension>>; the extension starts at the last
\* dot, unless only dots lie between the last separator and that dot
splitext(p) ==
    LET sepIndex == RFind(p, "/")
        dotIndex == RFind(p, ".")
    IN  IF /\ dotIndex > sepIndex
           /\ \E i \in (sepIndex + 1)..(dotIndex - 1) : p[i] # "."
        THEN <<SubSeq(p, 1, dotIndex - 1), SubSeq(p, dotIndex, Len(p))>>
        ELSE <<p, <<>>>>

\* str.split(sep)
RECURSIVE split(_, _)
split(s, sep) ==
    LET at == Find(s, sep)
    IN  IF at = 0
        THEN <<s>>
        ELSE <<SubSeq(s, 1, at - 1)>> \o split(SubSeq(s, at + 1, Len(s)), sep)


\* Every sequence over S of at most n elements.
SeqsUpTo(S, n) == UNION {[1..k -> S] : k \in 0..n}

----------------------------------------------------------------------------
(* Exceptions and str.format *)

\* template.format(arg): the argument fills the template's replacement
\* field "{}"; a template without one comes back as it is.
Format(template, arg) ==
    [text |-> template,
     args |-> IF \E i \in 1..Len(template) : template[i] = "{}" THEN <<arg>> ELSE <<>>]

NoException == [type |-> "none", message |-> [text |-> <<>>, args |-> <<>>]]

ValueError(message) == [type |-> "ValueError", message |-> message]

TypeError == [type |-> "TypeError", message |-> [text |-> <<"'<' not supported">>, args |-> <<>>]]

----------------------------------------------------------------------------
(* Version.from_string (debut.version): the version strings are cut down  *)
(* to the decimal numerals, ranked by their value.                         *)

Digits == {"0", "1", "2", "3"}

DigitValue(c) == Ord(c) - 48

RECURSIVE Numeral(_)
Numeral(chars) ==
    IF chars = <<>>
    THEN 0
    ELSE 10 * Numeral(SubSeq(chars, 1, Len(chars) - 1)) + DigitValue(chars[Len(chars)])

VersionIsValid(evr) == evr # <<>> /\ \A i \in 1..Len(evr) : evr[i] \in Digits

Version_from_string(evr) ==
    IF VersionIsValid(evr)
    THEN [raised |-> FALSE, exception |-> NoException, value |-> Version(Numeral(evr))]
    ELSE [raised |-> TRUE,
          exception |-> ValueError(Format(<<"Invalid version string: ", "{}">>, evr)),
          value |-> None]

----------------------------------------------------------------------------
(* DebArchive *)

DebArchive(name, version, architecture, original_filename) ==
    [name |-> name, version |-> version, architecture |-> architecture,
     original_filename |-> original_filename]

\* Stands where no DebArchive is.
NoArchive == DebArchive(None, None, None, None)

\* An argument of from_filename: a str, or a DebArchive built beforehand.
FilenameArg(chars) == [isDebArchive |-> FALSE, chars |-> chars, archive |-> NoArchive]

ArchiveArg(archive) == [isDebArchive |-> TRUE, chars |-> <<>>, archive |-> archive]

Returns(archive) == [raised |-> FALSE, exception |-> NoException, value |-> archive]

Raises(exception) == [raised |-> TRUE, exception |-> exception, value |-> NoArchive]

Extensions == {<<".", "d", "e", "b">>, <<".", "u", "d", "e", "b">>}

\* line 90
ExtensionIsKnown(extension) == extension \in Extensions

\* Line 94 as "fewer than three".
ComponentsAreTooFew(components) == Len(components) < 3

\* line 94
ComponentsAreWrong(components) == Len(components) # 3

\* DebArchive.from_filename, on a str
from_filename_str(original_filename) ==
    LET fn == basename(original_filename)
        basename_ == splitext(fn)[1]
        extension == splitext(fn)[2]
        components == split(basename_, "_")
    IN  IF ~ExtensionIsKnown(extension)
        THEN Raises(ValueError(Format(
                 <<"Unknown Debian binary package filename extension: ", "{}">>, fn)))
        ELSE IF ComponentsAreWrong(components)
        THEN Raises(ValueError(Format(
                 <<"Unknown Debian binary package filename format. ",
                   "Should have three underscore: ", "{}">>, fn)))
        ELSE LET version == Version_from_string(components[2])
             IN  IF version.raised
                 THEN Raises(version.exception)
                 ELSE Returns(DebArchive(Str(components[1]), version.value,
                                         Str(components[3]), Str(original_filename)))

\* DebArchive.from_filename
from_filename(arg) ==
    IF arg.isDebArchive THEN Returns(arg.archive) ELSE from_filename_str(arg.chars)

\* to_dict: the fields in insertion order (lines 107-111)
to_dict(archive) ==
    <<[key |-> "name", value |-> archive.name],
      [key |-> "version", value |-> archive.version],
      [key |-> "architecture", value |-> archive.architecture],
      [key |-> "original_filename", value |-> archive.original_filename]>>

\* The str 'original_filename' of line 119.
OriginalFilenameLiteral ==
    Str(<<"o", "r", "i", "g", "i", "n", "a", "l", "_",
          "f", "i", "l", "e", "n", "a", "m", "e">>)

\* to_tuple: the values of to_dict that differ from the str
\* 'original_filename' (line 119 tests the values, not the keys)
to_tuple(archive) ==
    LET values == [i \in 1..Len(to_dict(archive)) |-> to_dict(archive)[i].value]
        Kept(v) == v # OriginalFilenameLiteral
    IN  SelectSeq(values, Kept)

\* The order @attrs gives the class (line 58): by the tuple of all fields.
attrs_tuple(archive) ==
    <<archive.name, archive.version, archive.architecture, archive.original_filename>>

----------------------------------------------------------------------------
(* Python's ordering of values and tuples, and sorted() *)

\* x < y for two unequal values: "True", "False", or "TypeError" when the
\* types are not ordered against each other
ValueLess(x, y) ==
    IF x.t = "str" /\ y.t = "str"
    THEN (IF StrLess(x.s, y.s) THEN "True" ELSE "False")
    ELSE IF x.t = "Version" /\ y.t = "Version"
    THEN (IF x.n < y.n THEN "True" ELSE "False")
    ELSE "TypeError"

\* tuple < tuple: decided by the first pair of unequal elements, by the
\* lengths when there is none
TupleLess(x, y) ==
    LET common == IF Len(x) < Len(y) THEN Len(x) ELSE Len(y)
        differ == {i \in 1..common : x[i] # y[i]}
    IN  IF differ = {}
        THEN (IF Len(x) < Len(y) THEN "True" ELSE "False")
        ELSE LET k == CHOOSE i \in differ : \A j \in differ : i <= j
             IN  ValueLess(x[k], y[k])

\* One step of a stable sort: e goes before the first element whose key is
\* greater than e's.
InsertByKey(sorted, e) ==
    LET greater == {i \in 1..Len(sorted) : TupleLess(e.key, sorted[i].key) = "True"}
        at == IF greater = {} THEN Len(sorted) + 1
              ELSE CHOOSE i \in greater : \A j \in greater : i <= j
    IN  SubSeq(sorted, 1, at - 1) \o <<e>> \o SubSeq(sorted, at, Len(sorted))

RECURSIVE StableSort(_)
StableSort(decorated) ==
    IF decorated = <<>>
    THEN <<>>
    ELSE InsertByKey(StableSort(SubSeq(decorated, 1, Len(decorated) - 1)),
                     decorated[Len(decorated)])

\* sorted() over elements decorated with their keys, [key, item]: a stable
\* sort; it raises TypeError when two of the keys cannot be ordered.
sorted(decorated) ==
    IF \E i, j \in 1..Len(decorated) :
           i # j /\ TupleLess(decorated[i].key, decorated[j].key) = "TypeError"
    THEN [raised |-> TRUE, exception |-> TypeError, value |-> <<>>]
    ELSE [raised |-> FALSE, exception |-> NoException,
          value |-> [i \in 1..Len(decorated) |-> StableSort(decorated)[i].item]]

\* sorted(names): the distinct names, ascending
RECURSIVE SortedNames(_)
SortedNames(names) ==
    IF names = {}
    THEN <<>>
    ELSE LET least == CHOOSE n \in names : \A m \in names : m = n \/ StrLess(n.s, m.s)
         IN  <<least>> \o SortedNames(names \ {least})

\* ' '.join(strs)
RECURSIVE Join(_)
Join(strs) ==
    IF strs = <<>> THEN <<>>
    ELSE IF Len(strs) = 1 THEN strs[1].s
    ELSE strs[1].s \o <<" ">> \o Join(Tail(strs))

----------------------------------------------------------------------------
(* find_latest_version and find_latest_versions *)

\* What a call came to: an exception, or a returned None, DebArchive or dict
\* (a dict is the set of its items).
ReturnsNone ==
    [raised |-> FALSE, exception |-> NoException, returns |-> "None",
     archive |-> NoArchive, latests |-> {}]

ReturnsArchive(archive) ==
    [raised |-> FALSE, exception |-> NoException, returns |-> "DebArchive",
     archive |-> archive, latests |-> {}]

ReturnsDict(latests) ==
    [raised |-> FALSE, exception |-> NoException, returns |-> "dict",
     archive |-> NoArchive, latests |-> latests]

RaisesOut(exception) ==
    [raised |-> TRUE, exception |-> exception, returns |-> "nothing",
     archive |-> NoArchive, latests |-> {}]

NotCalled ==
    [raised |-> FALSE, exception |-> NoException, returns |-> "nothing",
     archive |-> NoArchive, latests |-> {}]

IndexError == [type |-> "IndexError", message |-> [text |-> <<"list index out of range">>, args |-> <<>>]]

\* "not packages" without the test: the function goes on with an empty list.
IsFalsyNever(packages_) == FALSE

\* lines 152 and 169: not packages
IsFalsy(packages_) == packages_ = <<>>

\* The list comprehension that drops what does not parse.
ParseAllSkipsInvalid(packages_) ==
    LET Good(arg) == ~from_filename(arg).raised
        kept == SelectSeq(packages_, Good)
    IN  [raised |-> FALSE, exception |-> NoException,
         value |-> [i \in 1..Len(kept) |-> from_filename(kept[i]).value]]

\* lines 154 and 171: [DebArchive.from_filename(fn) for fn in packages];
\* the first element that does not parse ends it
ParseAll(packages_) ==
    LET failing == {i \in 1..Len(packages_) : from_filename(packages_[i]).raised}
    IN  IF failing # {}
        THEN [raised |-> TRUE,
              exception |-> from_filename(packages_[CHOOSE i \in failing :
                                              \A j \in failing : i <= j]).exception,
              value |-> <<>>]
        ELSE [raised |-> FALSE, exception |-> NoException,
              value |-> [i \in 1..Len(packages_) |-> from_filename(packages_[i]).value]]

\* lines 156-160, on the sorted list
LatestOfSorted(ordered) ==
    LET names == {ordered[i].name : i \in 1..Len(ordered)}
    IN  IF Cardinality(names) > 1
        THEN RaisesOut(ValueError(Format(
                 <<"Cannot compare versions of different package names">>,
                 Join(SortedNames(names)))))
        ELSE IF ordered = <<>>
        THEN RaisesOut(IndexError)
        ELSE ReturnsArchive(ordered[Len(ordered)])

\* lines 154-160, on the parsed list
LatestOfParsed(archives) ==
    LET ordered == sorted([i \in 1..Len(archives) |->
                              [key |-> to_tuple(archives[i]), item |-> archives[i]]])
    IN  IF ordered.raised THEN RaisesOut(ordered.exception)
        ELSE LatestOfSorted(ordered.value)

find_latest_version(packages_) ==
    IF IsFalsy(packages_)
    THEN ReturnsNone
    ELSE LET archives == ParseAll(packages_)
         IN  IF archives.raised THEN RaisesOut(archives.exception)
             ELSE LatestOfParsed(archives.value)

\* itertools.groupby(packages, key=lambda p: p.name): the runs of
\* neighbours with equal names, as [name, group]
RECURSIVE groupby(_)
groupby(ordered) ==
    IF ordered = <<>>
    THEN <<>>
    ELSE LET others == {i \in 1..Len(ordered) : ordered[i].name # ordered[1].name}
             run == IF others = {} THEN Len(ordered)
                    ELSE (CHOOSE i \in others : \A j \in others : i <= j) - 1
         IN  <<[name |-> ordered[1].name, group |-> SubSeq(ordered, 1, run)]>>
             \o groupby(SubSeq(ordered, run + 1, Len(ordered)))

\* latests[name] = latest
DictSet(latests, name, latest) ==
    {e \in latests : e.name # name} \cup {[name |-> name, latest |-> latest]}

\* lines 172-176: the loop over the groups.  A group is an iterator: "not
\* packages" of line 152 is false for it, as it is for the non-empty list
\* the group holds.
RECURSIVE LatestOfGroups(_, _)
LatestOfGroups(groups, latests) ==
    IF groups = <<>>
    THEN ReturnsDict(latests)
    ELSE LET latest == find_latest_version(
                           [i \in 1..Len(groups[1].group) |-> ArchiveArg(groups[1].group[i])])
         IN  IF latest.raised
             THEN RaisesOut(latest.exception)
             ELSE LatestOfGroups(Tail(groups),
                                 DictSet(latests, groups[1].name, latest.archive))

find_latest_versions(packages_) ==
    IF IsFalsy(packages_)
    THEN ReturnsNone
    ELSE LET archives == ParseAll(packages_)
         IN  IF archives.raised THEN RaisesOut(archives.exception)
             ELSE LET ordered == sorted([i \in 1..Len(archives.value) |->
                                            [key |-> attrs_tuple(archives.value[i]),
                                             item |-> archives.value[i]]])
                  IN  IF ordered.raised THEN RaisesOut(ordered.exception)
                      ELSE LatestOfGroups(groupby(ordered.value), {})

----------------------------------------------------------------------------
(* match_relationships.  relationships.matches(name, version) is the       *)
(* caller's: it reports True, False or None.                               *)

Status == {"True", "False", "None"}

\* Verdict without the assignment of line 136.
VerdictKeepsOnConflict(status, current) ==
    IF status = "True" /\ current # "False" THEN "True" ELSE current

\* lines 131-136: archive_matches after one set reported status
Verdict(status, current) ==
    IF status = "True" /\ current # "False"
    THEN "True"
    ELSE IF status = "False" THEN "False" ELSE current

\* The loop without the break of line 139.
BreaksNever(status, current) == FALSE

\* lines 133-139: the break
Breaks(status, current) ==
    ~(status = "True" /\ current # "False") /\ status = "False"

\* line 128
Enter ==
    /\ pc = "call"
    /\ archive_matches' = "None"
    /\ pc' = "for"
    /\ UNCHANGED <<relationship_sets, position, consulted, returned,
                   filename, parsed, packages, outcome>>

\* lines 129-139: one turn of the loop
Iterate ==
    /\ pc = "for"
    /\ position <= Len(relationship_sets)
    /\ LET status == relationship_sets[position]
       IN  /\ consulted' = Append(consulted, position)
           /\ archive_matches' = Verdict(status, archive_matches)
           /\ position' = position + 1
           /\ pc' = IF Breaks(status, archive_matches) THEN "return" ELSE "for"
    /\ UNCHANGED <<relationship_sets, returned, filename, parsed, packages, outcome>>

\* line 129: the sequence is exhausted
Exhaust ==
    /\ pc = "for"
    /\ position > Len(relationship_sets)
    /\ pc' = "return"
    /\ UNCHANGED <<relationship_sets, position, archive_matches, consulted, returned,
                   filename, parsed, packages, outcome>>

\* line 140
Return ==
    /\ pc = "return"
    /\ returned' = archive_matches
    /\ pc' = "done"
    /\ UNCHANGED <<relationship_sets, position, archive_matches, consulted,
                   filename, parsed, packages, outcome>>

InitMatch ==
    /\ relationship_sets \in SeqsUpTo(Status, MaxSets)
    /\ position = 1
    /\ archive_matches = "unbound"
    /\ consulted = <<>>
    /\ returned = "unbound"
    /\ pc = "call"
    /\ filename = FilenameArg(<<>>)
    /\ parsed = Raises(NoException)
    /\ packages = <<>>
    /\ outcome = [call |-> "none", result |-> NotCalled]

NextMatch == Enter \/ Iterate \/ Exhaust \/ Return

SpecMatch == InitMatch /\ [][NextMatch]_vars

----------------------------------------------------------------------------
(* DebArchive.from_filename, called once on an argument *)

StemChars == {"p", "1", "_", "."}

Directories == {<<>>, <<"d", "/">>}

Suffixes ==
    {<<>>, <<".", "d", "e", "b">>, <<".", "u", "d", "e", "b">>, <<".", "r", "p", "m">>,
     <<"d", "e", "b">>, <<".", "d", "e", "b", "/">>}

Filenames ==
    {d \o stem \o x : d \in Directories, stem \in SeqsUpTo(StemChars, MaxStem), x \in Suffixes}

Prebuilt ==
    {DebArchive(Str(<<"p">>), Version(1), Str(<<"a">>), None),
     DebArchive(Str(<<"p">>), Version(2), Str(<<"a">>), None),
     DebArchive(Str(<<"q">>), Version(1), Str(<<"a">>), None),
     DebArchive(Str(<<"p">>), Version(1), Str(<<"a">>), Str(<<"x">>))}

CallFromFilename ==
    /\ pc = "call"
    /\ parsed' = from_filename(filename)
    /\ pc' = "done"
    /\ UNCHANGED <<relationship_sets, position, archive_matches, consulted, returned,
                   filename, packages, outcome>>

InitParse ==
    /\ filename \in {FilenameArg(f) : f \in Filenames} \cup {ArchiveArg(a) : a \in Prebuilt}
    /\ parsed = Raises(NoException)
    /\ pc = "call"
    /\ relationship_sets = <<>>
    /\ position = 1
    /\ archive_matches = "unbound"
    /\ consulted = <<>>
    /\ returned = "unbound"
    /\ packages = <<>>
    /\ outcome = [call |-> "none", result |-> NotCalled]

NextParse == CallFromFilename

SpecParse == InitParse /\ [][NextParse]_vars

----------------------------------------------------------------------------
(* find_latest_version and find_latest_versions, called once on a list *)

Candidates ==
    {FilenameArg(<<"p", "_", "1", "_", "a", ".", "d", "e", "b">>),
     FilenameArg(<<"p", "_", "2", "_", "a", ".", "d", "e", "b">>),
     FilenameArg(<<"q", "_", "1", "_", "a", ".", "d", "e", "b">>),
     FilenameArg(<<"d", "/", "p", "_", "1", "_", "a", ".", "d", "e", "b">>),
     FilenameArg(<<"p", "_", "1", ".", "d", "e", "b">>),
     ArchiveArg(DebArchive(Str(<<"p">>), Version(1), Str(<<"a">>), None)),
     ArchiveArg(DebArchive(Str(<<"p">>), Version(3), Str(<<"a">>), None)),
     ArchiveArg(DebArchive(Str(<<"q">>), Version(1), Str(<<"a">>), None))}

CallFindLatestVersion ==
    /\ pc = "call"
    /\ outcome' = [call |-> "find_latest_version", result |-> find_latest_version(packages)]
    /\ pc' = "done"
    /\ UNCHANGED <<relationship_sets, position, archive_matches, consulted, returned,
                   filename, parsed, packages>>

CallFindLatestVersions ==
    /\ pc = "call"
    /\ outcome' = [call |-> "find_latest_versions", result |-> find_latest_versions(packages)]
    /\ pc' = "done"
    /\ UNCHANGED <<relationship_sets, position, archive_matches, consulted, returned,
                   filename, parsed, packages>>

InitLatest ==
    /\ packages \in SeqsUpTo(Candidates, MaxPackages)
    /\ outcome = [call |-> "none", result |-> NotCalled]
    /\ pc = "call"
    /\ relationship_sets = <<>>
    /\ position = 1
    /\ archive_matches = "unbound"
    /\ consulted = <<>>
    /\ returned = "unbound"
    /\ filename = FilenameArg(<<>>)
    /\ parsed = Raises(NoException)

NextLatest == CallFindLatestVersion \/ CallFindLatestVersions

SpecLatest == InitLatest /\ [][NextLatest]_vars

----------------------------------------------------------------------------
(* Claims about match_relationships *)

Indices(status) == {i \in 1..Len(relationship_sets) : relationship_sets[i] = status}

\* The first set that reports False, 0 when none does.
FirstConflicted ==
    IF Indices("False") = {}
    THEN 0
    ELSE CHOOSE i \in Indices("False") : \A j \in Indices("False") : i <= j

\* C1: the sets are consulted in the given order, each at most once; no set
\* after the first one that reports False is ever consulted, and when the
\* call returns every set up to that one (every set, when none reports
\* False) has been consulted.
C1_ShortCircuit ==
    /\ \A k \in 1..Len(consulted) : consulted[k] = k
    /\ \A k \in 1..Len(consulted) :
           FirstConflicted # 0 => consulted[k] <= FirstConflicted
    /\ pc \in {"return", "done"} =>
           Len(consulted) = IF FirstConflicted = 0
                            THEN Len(relationship_sets)
                            ELSE FirstConflicted

\* A call has returned after a set reported False that has sets on both sides.
C1_Witness ==
    /\ pc = "done"
    /\ FirstConflicted > 1
    /\ FirstConflicted < Len(relationship_sets)
    /\ relationship_sets[1] = "True"
    /\ relationship_sets[Len(relationship_sets)] = "True"

----------------------------------------------------------------------------
(* Claims about DebArchive.from_filename *)

EndsWith(chars, suffix) ==
    /\ Len(suffix) <= Len(chars)
    /\ SubSeq(chars, Len(chars) - Len(suffix) + 1, Len(chars)) = suffix

\* The characters after the last "/".
PathStripped(chars) ==
    LET slashes == {i \in 1..Len(chars) : chars[i] = "/"}
    IN  SubSeq(chars, IF slashes = {} THEN 1
                      ELSE 1 + CHOOSE i \in slashes : \A j \in slashes : j <= i,
               Len(chars))

HasPackageExtension(chars) == \E x \in Extensions : EndsWith(PathStripped(chars), x)

\* What is left of the path-stripped name without its .deb or .udeb.
Stem(chars) ==
    LET base == PathStripped(chars)
        x == CHOOSE e \in Extensions : EndsWith(base, e)
    IN  SubSeq(base, 1, Len(base) - Len(x))

Underscores(chars) == Cardinality({i \in 1..Len(chars) : chars[i] = "_"})

IsInvalidFormat(exception) ==
    /\ exception.type = "ValueError"
    /\ exception.message.text[1] \in
           {"Unknown Debian binary package filename extension: ",
            "Unknown Debian binary package filename format. "}

\* C3: on a str whose path-stripped name does not end in .deb or .udeb, or
\* whose stem does not hold exactly two underscores, from_filename raises
\* the invalid-format error and returns no DebArchive.
C3_InvalidFormat ==
    (/\ pc = "done"
     /\ ~filename.isDebArchive
     /\ \/ ~HasPackageExtension(filename.chars)
        \/ Underscores(Stem(filename.chars)) # 2)
    => /\ parsed.raised
       /\ IsInvalidFormat(parsed.exception)
       /\ parsed.value = NoArchive

\* from_filename was called on a str that ends in .deb or .udeb and whose
\* stem holds three underscores, and it raised.
C3_Witness ==
    /\ pc = "done"
    /\ ~filename.isDebArchive
    /\ HasPackageExtension(filename.chars)
    /\ Underscores(Stem(filename.chars)) = 3
    /\ parsed.raised

\* C4: every DebArchive that from_filename returns for a str has a
\* non-empty name, a version and a non-empty architecture.
C4_NonEmptyFields ==
    (pc = "done" /\ ~filename.isDebArchive /\ ~parsed.raised)
    => /\ parsed.value.name.t = "str" /\ parsed.value.name.s # <<>>
       /\ parsed.value.version.t = "Version"
       /\ parsed.value.architecture.t = "str" /\ parsed.value.architecture.s # <<>>

----------------------------------------------------------------------------
(* Claims about the ordering key, find_latest_version and                 *)
(* find_latest_versions                                                    *)

Parses(arg) == ~from_filename(arg).raised

AllParse == \A i \in 1..Len(packages) : Parses(packages[i])

\* The archives the elements of the input stand for.
Inputs == {from_filename(packages[i]).value : i \in 1..Len(packages)}

Names == {a.name : a \in Inputs}

\* (name, version, architecture) of a is at most that of b.
TripleLeq(a, b) ==
    \/ StrLess(a.name.s, b.name.s)
    \/ /\ a.name = b.name
       /\ \/ a.version.n < b.version.n
          \/ /\ a.version = b.version
             /\ \/ a.architecture = b.architecture
                \/ StrLess(a.architecture.s, b.architecture.s)

SameTriple(a, b) ==
    a.name = b.name /\ a.version = b.version /\ a.architecture = b.architecture

\* C5: two archives with the same name, version and architecture have
\* equal sort keys, in to_tuple and in the order find_latest_versions
\* sorts by, whatever their original_filename.
C5_KeyIgnoresFilename ==
    AllParse =>
        \A a, b \in Inputs :
            SameTriple(a, b) =>
                /\ to_tuple(a) = to_tuple(b)
                /\ attrs_tuple(a) = attrs_tuple(b)

\* C6: on a non-empty list whose elements all parse and share one name,
\* find_latest_version returns an element of the input whose (name,
\* version, architecture) is at least that of every element.
C6_LatestIsMaximum ==
    (/\ pc = "done"
     /\ outcome.call = "find_latest_version"
     /\ packages # <<>>
     /\ AllParse
     /\ Cardinality(Names) = 1)
    => /\ ~outcome.result.raised
       /\ outcome.result.returns = "DebArchive"
       /\ outcome.result.archive \in Inputs
       /\ \A a \in Inputs : TripleLeq(a, outcome.result.archive)

\* C7: when all elements parse and their names differ, find_latest_version
\* raises the inconsistent-name error, and its message holds the distinct
\* names, sorted.
C7_NamesInMessage ==
    (/\ pc = "done"
     /\ outcome.call = "find_latest_version"
     /\ AllParse
     /\ Cardinality(Names) > 1)
    => /\ outcome.result.raised
       /\ outcome.result.returns = "nothing"
       /\ outcome.result.exception.type = "ValueError"
       /\ outcome.result.exception.message.text[1] =
              "Cannot compare versions of different package names"
       /\ outcome.result.exception.message.args = <<Join(SortedNames(Names))>>

\* C8: on a non-empty list whose elements all parse, find_latest_versions
\* returns a dict whose keys are the distinct names of the input, each with
\* an element of the input of that name whose (name, version,
\* architecture) is at least that of every element of that name.
C8_LatestPerName ==
    (/\ pc = "done"
     /\ outcome.call = "find_latest_versions"
     /\ packages # <<>>
     /\ AllParse)
    => /\ ~outcome.result.raised
       /\ outcome.result.returns = "dict"
       /\ {e.name : e \in outcome.result.latests} = Names
       /\ Cardinality(outcome.result.latests) = Cardinality(Names)
       /\ \A e \in outcome.result.latests :
              /\ e.latest \in Inputs
              /\ e.latest.name = e.name
              /\ \A a \in Inputs : a.name = e.name => TripleLeq(a, e.latest)

IsParseError(exception) ==
    \/ IsInvalidFormat(exception)
    \/ /\ exception.type = "ValueError"
       /\ exception.message.text[1] = "Invalid version string: "

\* C9: when an element of the input does not parse, whatever its place,
\* find_latest_version and find_latest_versions raise the invalid-format
\* error (not the inconsistent-name error) and return nothing: no archive,
\* no dict entry.
C9_ParseFailureFailsAll ==
    (pc = "done" /\ ~AllParse)
    => /\ outcome.result.raised
       /\ IsParseError(outcome.result.exception)
       /\ outcome.result.returns = "nothing"
       /\ outcome.result.archive = NoArchive
       /\ outcome.result.latests = {}

\* find_latest_versions was called on two archives of different names
\* followed by an element that does not parse.
C9_Witness ==
    /\ pc = "done"
    /\ outcome.call = "find_latest_versions"
    /\ Len(packages) = 3
    /\ Parses(packages[1]) /\ Parses(packages[2]) /\ ~Parses(packages[3])
    /\ from_filename(packages[1]).value.name # from_filename(packages[2]).value.name
    /\ outcome.result.raised

\* C10: on an empty list both functions return None and raise nothing; on
\* a non-empty list they never return None: they raise, or return a
\* DebArchive or a non-empty dict.
C10_EmptyIsAbsent ==
    pc = "done" =>
        /\ packages = <<>> =>
               ~outcome.result.raised /\ outcome.result.returns = "None"
        /\ packages # <<>> =>
               \/ outcome.result.raised
               \/ outcome.result.returns = "DebArchive"
               \/ outcome.result.returns = "dict" /\ outcome.result.latests # {}

\* find_latest_versions was called on the empty list and returned None.
C10_Witness ==
    /\ pc = "done"
    /\ outcome.call = "find_latest_versions"
    /\ packages = <<>>
    /\ outcome.result.returns = "None"

=============================================================================
